---- MODULE Spec2Model ----
(***************************************************************************)
(* paper-agent.  Keyword filter (lib/filter.py): FilterConfig,             *)
(* KeywordFilter and its operations filter_papers and get_statistics,      *)
(* under Spec.  The `all` command of scripts/paper_agent.py under          *)
(* SpecPipeline, analyze_pdf of lib/analyzer.py under SpecAnalyzer and     *)
(* PDFDownloader of lib/downloader.py under SpecDownloader, each with the  *)
(* variables of the other components left as they start.                   *)
(*                                                                         *)
(* A Python str is a sequence of one-character strings.  A dict is a       *)
(* function, a list a sequence.  A record field value is a tagged pair     *)
(* <<type, payload>> so that isinstance() can be modelled.                 *)
(***************************************************************************)
EXTENDS Naturals, Sequences, FiniteSets, TLC

VARIABLES pc, config, patterns, op, papers, relevant, irrelevant, evals, stats,
          main, analyzer, downloader

vars == <<pc, config, patterns, op, papers, relevant, irrelevant, evals, stats,
          main, analyzer, downloader>>

(***************************************************************************)
(* Bounds of the model.                                                    *)
(***************************************************************************)
MaxTextLen == 3       \* longest field text of a record
MaxPapers == 3        \* longest batch handed to filter_papers
MaxRetries == 3       \* largest max_retries handed to analyze_pdf
MaxCalls == 2         \* most calls of PDFDownloader.download

(***************************************************************************)
(* Characters and strings.                                                 *)
(***************************************************************************)
WordChars == {"a", "b", "A"}            \* characters matched by \w
Chars == WordChars \cup {"-", " "}      \* "-" is a \W character, " " is \s

RECURSIVE StringsUpTo(_)
StringsUpTo(n) ==
    IF n = 0 THEN {<<>>}
    ELSE LET S == StringsUpTo(n - 1)
         IN  S \cup {Append(s, c) : s \in {t \in S : Len(t) = n - 1}, c \in Chars}

Range(s) == {s[i] : i \in DOMAIN s}

\* Python None, as a value no string is equal to.
None == <<"None">>

\* str.lower()
lower(s) == [i \in 1..Len(s) |-> IF s[i] = "A" THEN "a" ELSE s[i]]

\* sep.join(parts)
RECURSIVE join(_, _)
join(sep, parts) ==
    IF parts = <<>> THEN <<>>
    ELSE IF Len(parts) = 1 THEN parts[1]
    ELSE parts[1] \o sep \o join(sep, Tail(parts))

\* re.sub(r'\s+', ' ', text): every maximal run of whitespace becomes one space.
RECURSIVE re_sub_whitespace(_)
re_sub_whitespace(text) ==
    IF text = <<>> THEN <<>>
    ELSE LET rest == re_sub_whitespace(Tail(text))
         IN  IF Head(text) = " " /\ rest # <<>> /\ Head(rest) = " "
             THEN rest
             ELSE <<Head(text)>> \o rest

(***************************************************************************)
(* Compiled patterns: re.compile(rf'\b{re.escape(word)}\b', flags) or      *)
(* re.compile(re.escape(word), flags), and pattern.search(text).           *)
(***************************************************************************)
re_compile(word, whole_word, ignorecase) ==
    [literal |-> word, whole_word |-> whole_word, ignorecase |-> ignorecase]

IsWordAt(text, p) == p >= 1 /\ p <= Len(text) /\ text[p] \in WordChars

\* \b after the first p characters of text: exactly one neighbour is a \w character.
WordBoundary(text, p) == IsWordAt(text, p) # IsWordAt(text, p + 1)

CharMatches(pattern, c, d) ==
    IF pattern.ignorecase THEN lower(<<c>>) = lower(<<d>>) ELSE c = d

MatchAt(pattern, text, p) ==
    LET lit == pattern.literal
    IN  /\ p + Len(lit) <= Len(text)
        /\ \A k \in 1..Len(lit) : CharMatches(pattern, lit[k], text[p + k])
        /\ pattern.whole_word =>
              WordBoundary(text, p) /\ WordBoundary(text, p + Len(lit))

re_search(pattern, text) == \E p \in 0..Len(text) : MatchAt(pattern, text, p)

(***************************************************************************)
(* FilterConfig.                                                           *)
(***************************************************************************)
\* The built-in table, cut down to one entry of the shape of
\* 'transformer': ['attention', 'self-attention'] over the model's characters.
BUILTIN_SYNONYMS == (<<"b">> :> << <<"a">>, <<"-", "a">> >>)

\* Mutant of dict_update: a key of both tables keeps the synonyms of both.
dict_update_merge_lists(base, other) ==
    [k \in DOMAIN base \cup DOMAIN other |->
        IF k \in DOMAIN other
        THEN (IF k \in DOMAIN base THEN base[k] ELSE <<>>) \o other[k]
        ELSE base[k]]

\* merged = BUILTIN_SYNONYMS.copy(); merged.update(self.synonyms)
dict_update(base, other) ==
    [k \in DOMAIN base \cup DOMAIN other |->
        IF k \in DOMAIN other THEN other[k] ELSE base[k]]

FilterConfig_post_init(args) ==
    [args EXCEPT !.synonyms = dict_update(BUILTIN_SYNONYMS, args.synonyms)]

(***************************************************************************)
(* KeywordFilter: construction.                                            *)
(***************************************************************************)
CaseFold(cfg, word) == IF ~cfg.case_sensitive THEN lower(word) ELSE word

GroupWords(cfg) == UNION {Range(g) : g \in Range(cfg.include_groups)}

_get_all_keywords(cfg) ==
    {CaseFold(cfg, word) : word \in GroupWords(cfg)}
    \cup {CaseFold(cfg, syn) :
            syn \in UNION {Range(cfg.synonyms[word]) :
                             word \in GroupWords(cfg) \cap DOMAIN cfg.synonyms}}
    \cup {CaseFold(cfg, word) : word \in Range(cfg.exclude)}

_compile_patterns(cfg) ==
    [word \in _get_all_keywords(cfg) |->
        re_compile(word, cfg.whole_word, ~cfg.case_sensitive)]

(***************************************************************************)
(* KeywordFilter: text of a record.                                        *)
(***************************************************************************)
_preprocess_text(cfg, text) ==
    IF text = <<>> THEN <<>>
    ELSE re_sub_whitespace(IF ~cfg.case_sensitive THEN lower(text) ELSE text)

\* str(v) of a list element: a str is itself; the one other element of the
\* model is the int 0.
str(v) == IF v[1] = "str" THEN v[2] ELSE <<"0">>

\* paper.get(field, '')
paper_get(paper, field) ==
    IF field \in DOMAIN paper THEN paper[field] ELSE <<"str", <<>> >>

RECURSIVE MapStr(_)
MapStr(values) ==
    IF values = <<>> THEN <<>> ELSE <<str(Head(values))>> \o MapStr(Tail(values))

\* Mutant of FieldTexts: a value that is neither a str nor a list is appended
\* as str(value).
RECURSIVE FieldTexts_str_of_other(_, _)
FieldTexts_str_of_other(paper, fields) ==
    IF fields = <<>> THEN <<>>
    ELSE LET value == paper_get(paper, Head(fields))
             rest == FieldTexts_str_of_other(paper, Tail(fields))
         IN  IF value[1] = "str" THEN <<value[2]>> \o rest
             ELSE IF value[1] = "list"
                  THEN <<join(<<" ">>, MapStr(value[2]))>> \o rest
                  ELSE <<str(value)>> \o rest

\* texts: one element per field whose value is a str or a list, none for a
\* value of another type.
RECURSIVE FieldTexts(_, _)
FieldTexts(paper, fields) ==
    IF fields = <<>> THEN <<>>
    ELSE LET value == paper_get(paper, Head(fields))
             rest == FieldTexts(paper, Tail(fields))
         IN  IF value[1] = "str" THEN <<value[2]>> \o rest
             ELSE IF value[1] = "list"
                  THEN <<join(<<" ">>, MapStr(value[2]))>> \o rest
                  ELSE rest

_get_paper_text(cfg, paper) ==
    _preprocess_text(cfg, join(<<" ">>, FieldTexts(paper, cfg.match_fields)))

(***************************************************************************)
(* KeywordFilter: evaluation of one text.                                  *)
(***************************************************************************)
_contains_keyword(pats, text, keyword) ==
    keyword \in DOMAIN pats /\ re_search(pats[keyword], text)

\* The two exclude_reason texts (lines 170 and 179) and the default reason of
\* get_statistics (line 237), each fixed text written as one token.
reason_word(exclude_word) == <<"excluded by word: ">> \o exclude_word

reason_synonym(syn, exclude_word) ==
    <<"excluded by synonym: ">> \o syn \o <<" (from ">> \o exclude_word \o <<")">>

NoGroupMatched == <<"no include group matched">>

\* f"{syn}({keyword})"
syn_of(syn, keyword) == syn \o <<"(">> \o keyword \o <<")">>

\* First synonym of exclude_word, from position j on, that the text contains.
RECURSIVE ExcludeSynonymHit(_, _, _, _, _)
ExcludeSynonymHit(cfg, pats, text, exclude_word, j) ==
    LET syns == cfg.synonyms[exclude_word]
    IN  IF j > Len(syns) THEN None
        ELSE IF _contains_keyword(pats, text, syns[j])
             THEN reason_synonym(syns[j], exclude_word)
             ELSE ExcludeSynonymHit(cfg, pats, text, exclude_word, j + 1)

\* Mutant of ExcludePass: the synonyms of an exclude word are tested before
\* the word itself.
RECURSIVE ExcludePass_synonyms_first(_, _, _, _)
ExcludePass_synonyms_first(cfg, pats, text, i) ==
    IF i > Len(cfg.exclude) THEN None
    ELSE LET exclude_word == cfg.exclude[i]
             by_syn == IF exclude_word \in DOMAIN cfg.synonyms
                       THEN ExcludeSynonymHit(cfg, pats, text, exclude_word, 1)
                       ELSE None
         IN  IF by_syn # None THEN by_syn
             ELSE IF _contains_keyword(pats, text, exclude_word)
             THEN reason_word(exclude_word)
             ELSE ExcludePass_synonyms_first(cfg, pats, text, i + 1)

\* The loop over config.exclude from position i on: the exclude_reason of the
\* first hit, None when the loop ends without one.
RECURSIVE ExcludePass(_, _, _, _)
ExcludePass(cfg, pats, text, i) ==
    IF i > Len(cfg.exclude) THEN None
    ELSE LET exclude_word == cfg.exclude[i]
             by_syn == IF exclude_word \in DOMAIN cfg.synonyms
                       THEN ExcludeSynonymHit(cfg, pats, text, exclude_word, 1)
                       ELSE None
         IN  IF _contains_keyword(pats, text, exclude_word)
             THEN reason_word(exclude_word)
             ELSE IF by_syn # None THEN by_syn
             ELSE ExcludePass(cfg, pats, text, i + 1)

\* matched_words of the synonyms of keyword, from position j on.
RECURSIVE SynonymMatches(_, _, _, _, _)
SynonymMatches(cfg, pats, text, keyword, j) ==
    LET syns == cfg.synonyms[keyword]
    IN  IF j > Len(syns) THEN <<>>
        ELSE (IF _contains_keyword(pats, text, syns[j])
              THEN <<syn_of(syns[j], keyword)>> ELSE <<>>)
             \o SynonymMatches(cfg, pats, text, keyword, j + 1)

\* Mutant of matched_words: only the first surface form found is kept.
matched_words_first_only(cfg, pats, text, keyword) ==
    LET syns == IF keyword \in DOMAIN cfg.synonyms
                THEN SynonymMatches(cfg, pats, text, keyword, 1) ELSE <<>>
    IN  IF _contains_keyword(pats, text, keyword) THEN <<keyword>>
        ELSE IF syns # <<>> THEN <<Head(syns)>> ELSE <<>>

\* matched_words of one keyword; keyword_matched is true exactly when it is
\* not empty.
matched_words(cfg, pats, text, keyword) ==
    (IF _contains_keyword(pats, text, keyword) THEN <<keyword>> ELSE <<>>)
    \o (IF keyword \in DOMAIN cfg.synonyms
        THEN SynonymMatches(cfg, pats, text, keyword, 1) ELSE <<>>)

\* The loop over the keywords of a group from position k on, group_matches so
\* far in acc; an unmatched keyword breaks with all_match false.
RECURSIVE GroupPass(_, _, _, _, _, _)
GroupPass(cfg, pats, text, group, k, acc) ==
    IF k > Len(group) THEN [all_match |-> TRUE, group_matches |-> acc]
    ELSE LET words == matched_words(cfg, pats, text, group[k])
         IN  IF words # <<>>
             THEN GroupPass(cfg, pats, text, group, k + 1, acc \o words)
             ELSE [all_match |-> FALSE, group_matches |-> acc]

NewMatchInfo ==
    [is_relevant |-> FALSE, matched_groups |-> <<>>, matched_keywords |-> <<>>,
     excluded |-> FALSE, exclude_reason |-> None]

\* Mutant of IncludePass: the loop ends at the first group that matched.
RECURSIVE IncludePass_first_group_only(_, _, _, _, _)
IncludePass_first_group_only(cfg, pats, text, g, match_info) ==
    IF g > Len(cfg.include_groups) THEN match_info
    ELSE LET group == cfg.include_groups[g]
             r == GroupPass(cfg, pats, text, group, 1, <<>>)
         IN  IF r.all_match
             THEN [match_info EXCEPT
                     !.is_relevant = TRUE,
                     !.matched_groups = Append(@,
                         [group_index |-> g - 1, group |-> group,
                          matched_keywords |-> r.group_matches]),
                     !.matched_keywords = @ \o r.group_matches]
             ELSE IncludePass_first_group_only(cfg, pats, text, g + 1, match_info)

\* The loop over config.include_groups from position g on (group_index g - 1).
RECURSIVE IncludePass(_, _, _, _, _)
IncludePass(cfg, pats, text, g, match_info) ==
    IF g > Len(cfg.include_groups) THEN match_info
    ELSE LET group == cfg.include_groups[g]
             r == GroupPass(cfg, pats, text, group, 1, <<>>)
         IN  IF r.all_match
             THEN IncludePass(cfg, pats, text, g + 1,
                    [match_info EXCEPT
                       !.is_relevant = TRUE,
                       !.matched_groups = Append(@,
                           [group_index |-> g - 1, group |-> group,
                            matched_keywords |-> r.group_matches]),
                       !.matched_keywords = @ \o r.group_matches])
             ELSE IncludePass(cfg, pats, text, g + 1, match_info)

\* list(set(xs)): the distinct elements; their order is the interpreter's.
list_set(xs) == Range(xs)

\* Mutant of _check_paper: the include groups are evaluated for an excluded
\* text too and their result is kept.
_check_paper_keeps_included(cfg, pats, text) ==
    LET reason == ExcludePass(cfg, pats, text, 1)
        included == IncludePass(cfg, pats, text, 1, NewMatchInfo)
    IN  IF reason # None
        THEN [included EXCEPT !.excluded = TRUE, !.exclude_reason = reason,
                              !.matched_keywords = list_set(@)]
        ELSE [included EXCEPT !.matched_keywords = list_set(@)]

\* The exclude loop with its early return, then the include loop and the
\* removal of duplicates.
_check_paper(cfg, pats, text) ==
    LET reason == ExcludePass(cfg, pats, text, 1)
        included == IncludePass(cfg, pats, text, 1, NewMatchInfo)
    IN  IF reason # None
        THEN [NewMatchInfo EXCEPT !.excluded = TRUE, !.exclude_reason = reason,
                                  !.matched_keywords = {}]
        ELSE [included EXCEPT !.matched_keywords = list_set(@)]

(***************************************************************************)
(* KeywordFilter.filter_papers.                                            *)
(***************************************************************************)
\* Mutant of annotate: the copy is a fresh dict that holds the annotation only.
annotate_fresh_dict(paper, match_info) ==
    ("relevant" :> <<"bool", match_info.is_relevant>>
     @@ "match_info" :> <<"dict", match_info>>)

\* paper_copy = paper.copy(); paper_copy['relevant'] = ...; paper_copy['match_info'] = ...
annotate(paper, match_info) ==
    [f \in DOMAIN paper \cup {"relevant", "match_info"} |->
        IF f = "relevant" THEN <<"bool", match_info.is_relevant>>
        ELSE IF f = "match_info" THEN <<"dict", match_info>>
        ELSE paper[f]]

\* Mutant of list_append: insert(0, x).
list_insert_front(xs, x) == <<x>> \o xs

\* relevant.append(paper_copy) / irrelevant.append(paper_copy)
list_append(xs, x) == Append(xs, x)

\* Mutant of patterns_after_check: the lookup is a pop, so a pattern that was
\* found in the text is gone from the table afterwards.
patterns_after_pop(pats, text) ==
    [word \in {w \in DOMAIN pats : ~re_search(pats[w], text)} |-> pats[word]]

\* self.patterns once _check_paper(text) has returned: _contains_keyword reads
\* the table with .get and nothing assigns to it.
patterns_after_check(pats, text) == pats

\* Mutant of papers_after_annotate: paper_copy is the input dict itself, so
\* the annotation is written into the element of the input list.
papers_annotated_in_place(batch, i, match_info) ==
    [batch EXCEPT ![i] = annotate(batch[i], match_info)]

\* The input list once element i has been handled: paper.copy() is a new
\* dict, the two assignments go to it, and nothing assigns to the list.
papers_after_annotate(batch, i, match_info) == batch

\* The loop of filter_papers from position i on.  st holds the input list,
\* the two output lists, the filter's pattern table, and for every iteration
\* so far the record as it was read, its text and its match_info.
RECURSIVE FilterLoop(_, _, _, _)
FilterLoop(cfg, batch, i, st) ==
    IF i > Len(batch) THEN st
    ELSE LET paper == st.papers[i]
             paper_text == _get_paper_text(cfg, paper)
             match_info == _check_paper(cfg, st.patterns, paper_text)
             paper_copy == annotate(paper, match_info)
         IN  FilterLoop(cfg, batch, i + 1,
               [papers |-> papers_after_annotate(st.papers, i, match_info),
                relevant |-> IF match_info.is_relevant
                             THEN list_append(st.relevant, paper_copy)
                             ELSE st.relevant,
                irrelevant |-> IF match_info.is_relevant
                               THEN st.irrelevant
                               ELSE list_append(st.irrelevant, paper_copy),
                evals |-> Append(st.evals,
                                 [paper |-> paper, text |-> paper_text,
                                  match_info |-> match_info]),
                patterns |-> patterns_after_check(st.patterns, paper_text)])

filter_papers(cfg, pats, batch) ==
    FilterLoop(cfg, batch, 1,
               [papers |-> batch, relevant |-> <<>>, irrelevant |-> <<>>,
                evals |-> <<>>, patterns |-> pats])

(***************************************************************************)
(* KeywordFilter.get_statistics.                                           *)
(***************************************************************************)
\* d.get(key, default)
dict_get(d, key, default) == IF key \in DOMAIN d THEN d[key] ELSE default

\* paper.get('match_info', {})
paper_match_info(paper) ==
    IF "match_info" \in DOMAIN paper THEN paper["match_info"][2] ELSE <<>>

\* paper.get('match_info', {}).get('exclude_reason', <default reason>)
paper_reason(paper) ==
    dict_get(paper_match_info(paper), "exclude_reason", NoGroupMatched)

\* paper.get('match_info', {}).get('matched_groups', [])
paper_matched_groups(paper) ==
    dict_get(paper_match_info(paper), "matched_groups", <<>>)

RECURSIVE SumSeq(_)
SumSeq(ns) == IF ns = <<>> THEN 0 ELSE Head(ns) + SumSeq(Tail(ns))

\* Mutant of group_counts: keyed by group_match['group_index'].
group_counts_by_index(rel) ==
    LET keys == UNION {{gm.group_index : gm \in Range(paper_matched_groups(p))} :
                          p \in Range(rel)}
        hits(p, key) ==
            Cardinality({j \in DOMAIN paper_matched_groups(p) :
                            paper_matched_groups(p)[j].group_index = key})
    IN  [key \in keys |-> SumSeq([i \in DOMAIN rel |-> hits(rel[i], key)])]

\* group_counts, keyed by tuple(group_match['group'])
group_counts(rel) ==
    LET keys == UNION {{gm.group : gm \in Range(paper_matched_groups(p))} :
                          p \in Range(rel)}
        hits(p, key) ==
            Cardinality({j \in DOMAIN paper_matched_groups(p) :
                            paper_matched_groups(p)[j].group = key})
    IN  [key \in keys |-> SumSeq([i \in DOMAIN rel |-> hits(rel[i], key)])]

exclude_reasons(irr) ==
    [reason \in {paper_reason(p) : p \in Range(irr)} |->
        Cardinality({i \in DOMAIN irr : paper_reason(irr[i]) = reason})]

\* relevance_rate is len(relevant) / total * 100, kept as the exact fraction
\* <<numerator, denominator>>, and 0 when total is 0.  The keys of
\* group_matches are str(tuple): one text per tuple, kept as the tuple.
get_statistics(rel, irr) ==
    LET total == Len(rel) + Len(irr)
    IN  [total_papers |-> total,
         relevant_count |-> Len(rel),
         irrelevant_count |-> Len(irr),
         relevance_rate |-> IF total > 0 THEN <<Len(rel) * 100, total>> ELSE <<0, 1>>,
         group_matches |-> group_counts(rel),
         exclusion_reasons |-> exclude_reasons(irr)]

(***************************************************************************)
(* Inputs: configurations and records.                                     *)
(***************************************************************************)
IncludeChoices ==
    { <<>>,
      << <<>> >>,
      << << <<"a">> >> >>,
      << << <<"A">> >> >>,
      << << <<"-", "a">> >> >>,
      << << <<>> >> >>,
      << << <<"a">>, <<"b">> >> >>,
      << << <<"a">> >>, << <<"b">> >> >>,
      << << <<"b">> >>, << <<"a">> >> >>,
      << << <<"b">> >>, << <<"a">>, <<"b">> >> >> }

ExcludeChoices == { <<>>, << <<"b">> >>, << <<"A">>, <<"b">> >> }

\* The caller's synonyms: none, or a table that replaces the built-in entry
\* and adds an entry for a keyword the built-in table does not have.
SynonymChoices ==
    { <<>>, (<<"b">> :> << <<"A">> >> @@ <<"a">> :> << <<"b">> >>) }

MatchFieldChoices == { <<"title", "abstract">>, <<"title", "match_info">> }

FilterArgs ==
    [include_groups : IncludeChoices, exclude : ExcludeChoices,
     synonyms : SynonymChoices, match_fields : MatchFieldChoices,
     case_sensitive : BOOLEAN, whole_word : BOOLEAN]

Str(s) == <<"str", s>>
Other == <<"other", 0>>          \* the int 0: neither a str nor a list

TitlePapers == {("title" :> Str(t)) : t \in StringsUpTo(MaxTextLen)}

OddPapers ==
    { <<>>,
      ("title" :> Other),
      ("title" :> <<"list", <<Str(<<"a">>), Str(<<"b">>)>> >>),
      ("title" :> <<"list", <<Other, Str(<<"a">>)>> >>),
      ("title" :> Str(<<"a">>) @@ "abstract" :> Str(<<"b">>)),
      ("abstract" :> Str(<<"a">>)),
      ("title" :> Other @@ "abstract" :> Str(<<"A">>)),
      ("title" :> Str(<<"b">>) @@ "match_info" :> Str(<<"a">>)) }

Papers == TitlePapers \cup OddPapers

BatchPapers ==
    { ("title" :> Str(<<"a">>)),
      ("title" :> Other @@ "abstract" :> Str(<<"a", "b">>)),
      ("title" :> Str(<<"b">>) @@ "match_info" :> Str(<<"a">>)) }

RECURSIVE BatchesOfLen(_)
BatchesOfLen(n) ==
    IF n = 0 THEN {<<>>}
    ELSE {Append(b, p) : b \in BatchesOfLen(n - 1), p \in BatchPapers}

Batches == UNION {BatchesOfLen(n) : n \in 0..MaxPapers}

(***************************************************************************)
(* The state machine.  pc: "start" (arguments chosen), "config" (the       *)
(* FilterConfig exists), "ready" (the KeywordFilter exists).  op is the    *)
(* last operation on the filter; papers is its argument as the operation   *)
(* left it, relevant, irrelevant and stats are what it returned, and evals *)
(* is the record, text and match_info of each evaluation it made.          *)
(***************************************************************************)
Init ==
    /\ pc = "start"
    /\ config \in FilterArgs
    /\ patterns = <<>>
    /\ op = "none"
    /\ papers = <<>>
    /\ relevant = <<>>
    /\ irrelevant = <<>>
    /\ evals = <<>>
    /\ stats = <<>>
    /\ main = <<>>
    /\ analyzer = <<>>
    /\ downloader = <<>>

\* FilterConfig(...): the dataclass __init__ and then __post_init__.
NewFilterConfig ==
    /\ pc = "start"
    /\ config' = FilterConfig_post_init(config)
    /\ pc' = "config"
    /\ UNCHANGED <<patterns, op, papers, relevant, irrelevant, evals, stats,
               main, analyzer, downloader>>

\* KeywordFilter(config)
NewKeywordFilter ==
    /\ pc = "config"
    /\ patterns' = _compile_patterns(config)
    /\ pc' = "ready"
    /\ UNCHANGED <<config, op, papers, relevant, irrelevant, evals, stats,
               main, analyzer, downloader>>

\* _check_paper(_get_paper_text(paper)) for one record.
Evaluate ==
    /\ pc = "ready"
    /\ op = "none"
    /\ \E paper \in Papers :
          LET text == _get_paper_text(config, paper)
          IN  /\ papers' = <<paper>>
              /\ evals' = <<[paper |-> paper, text |-> text,
                             match_info |-> _check_paper(config, patterns, text)]>>
              /\ patterns' = patterns_after_check(patterns, text)
    /\ op' = "check"
    /\ UNCHANGED <<pc, config, relevant, irrelevant, stats,
               main, analyzer, downloader>>

CallFilterPapers(batch, name) ==
    LET r == filter_papers(config, patterns, batch)
    IN  /\ papers' = r.papers
        /\ relevant' = r.relevant
        /\ irrelevant' = r.irrelevant
        /\ evals' = r.evals
        /\ patterns' = r.patterns
        /\ op' = name
        /\ UNCHANGED <<pc, config, stats,
                   main, analyzer, downloader>>

\* filter_papers(batch)
Classify ==
    /\ pc = "ready"
    /\ op = "none"
    /\ \E batch \in Batches : CallFilterPapers(batch, "filter")

\* filter_papers(relevant), on the relevant list the last call returned.
Reclassify ==
    /\ pc = "ready"
    /\ op = "filter"
    /\ CallFilterPapers(relevant, "refilter")

\* get_statistics(relevant, irrelevant), on the lists the last call returned.
Summarize ==
    /\ pc = "ready"
    /\ op = "filter"
    /\ stats' = get_statistics(relevant, irrelevant)
    /\ op' = "stats"
    /\ UNCHANGED <<pc, config, patterns, papers, relevant, irrelevant, evals,
               main, analyzer, downloader>>

Next ==
    \/ NewFilterConfig
    \/ NewKeywordFilter
    \/ Evaluate
    \/ Classify
    \/ Reclassify
    \/ Summarize

Spec == Init /\ [][Next]_vars

(***************************************************************************)
(* What the claims mean by a literal occurring in a text, stated on the    *)
(* text alone: under whole_word the characters next to the occurrence are  *)
(* not word characters (or the text starts or ends there); otherwise any   *)
(* substring occurrence counts; letter case matters only when              *)
(* case_sensitive.                                                         *)
(***************************************************************************)
SameChar(cfg, c, d) ==
    IF cfg.case_sensitive THEN c = d ELSE lower(<<c>>) = lower(<<d>>)

OccursAt(cfg, text, literal, p) ==
    /\ p + Len(literal) <= Len(text)
    /\ \A k \in 1..Len(literal) : SameChar(cfg, literal[k], text[p + k])
    /\ cfg.whole_word =>
          ~IsWordAt(text, p) /\ ~IsWordAt(text, p + Len(literal) + 1)

Occurs(cfg, text, literal) == \E p \in 0..Len(text) : OccursAt(cfg, text, literal, p)

\* The synonyms of a keyword in the resolved table.
SynonymsOf(cfg, keyword) ==
    IF keyword \in DOMAIN cfg.synonyms THEN Range(cfg.synonyms[keyword]) ELSE {}

\* The keyword or one of its synonyms occurs in the text.
KeywordOccurs(cfg, text, keyword) ==
    \/ Occurs(cfg, text, keyword)
    \/ \E syn \in SynonymsOf(cfg, keyword) : Occurs(cfg, text, syn)

Evaluated == pc = "ready" /\ evals # <<>>

(***************************************************************************)
(* C1.  Exclusion precedence: when an exclude keyword, or a synonym of an  *)
(* exclude keyword in the resolved table, occurs in the text of a record,  *)
(* its is_relevant is false, whatever the include groups say.              *)
(***************************************************************************)
C1_ExclusionPrecedence ==
    Evaluated =>
      \A i \in DOMAIN evals :
        (\E w \in Range(config.exclude) : KeywordOccurs(config, evals[i].text, w))
          => ~evals[i].match_info.is_relevant

(***************************************************************************)
(* C2.  Group OR / keyword AND: a record that is not excluded is relevant  *)
(* exactly when some include group has every keyword occurring in the      *)
(* text, as itself or as one of its synonyms.                              *)
(***************************************************************************)
GroupOccurs(cfg, text, group) ==
    \A k \in DOMAIN group : KeywordOccurs(cfg, text, group[k])

C2_GroupOrKeywordAnd ==
    Evaluated =>
      \A i \in DOMAIN evals :
        ~evals[i].match_info.excluded =>
          (evals[i].match_info.is_relevant
             <=> \E g \in DOMAIN config.include_groups :
                    GroupOccurs(config, evals[i].text, config.include_groups[g]))

(***************************************************************************)
(* C3.  filter_papers partitions the batch: every input record is in       *)
(* exactly one output, the relevant one exactly when its is_relevant is    *)
(* true, as a copy that carries its own MatchResult, and each output       *)
(* keeps the input order.                                                  *)
(***************************************************************************)
AnnotationFields == {"relevant", "match_info"}

\* copy is paper with the two annotation fields set from match_info.
IsAnnotatedCopy(copy, paper, match_info) ==
    /\ DOMAIN copy = DOMAIN paper \cup AnnotationFields
    /\ copy["relevant"] = <<"bool", match_info.is_relevant>>
    /\ copy["match_info"] = <<"dict", match_info>>
    /\ \A f \in DOMAIN paper \ AnnotationFields : copy[f] = paper[f]

\* The k-th smallest member of a set of positions.
NthOf(S, k) == CHOOSE i \in S : Cardinality({j \in S : j < i}) = k - 1

OwnResult(i) == _check_paper(config, patterns, _get_paper_text(config, papers[i]))

RelevantPositions == {i \in DOMAIN papers : OwnResult(i).is_relevant}

C3_Partition ==
    op \in {"filter", "refilter"} =>
      LET rel == RelevantPositions
          irr == DOMAIN papers \ RelevantPositions
      IN  /\ Len(relevant) = Cardinality(rel)
          /\ Len(irrelevant) = Cardinality(irr)
          /\ \A k \in DOMAIN relevant :
               IsAnnotatedCopy(relevant[k], papers[NthOf(rel, k)],
                               OwnResult(NthOf(rel, k)))
          /\ \A k \in DOMAIN irrelevant :
               IsAnnotatedCopy(irrelevant[k], papers[NthOf(irr, k)],
                               OwnResult(NthOf(irr, k)))

\* A batch of three distinct records: relevant, irrelevant, relevant.
C3_Witness ==
    /\ op = "filter"
    /\ Len(papers) = 3
    /\ papers[1] # papers[3]
    /\ RelevantPositions = {1, 3}
    /\ Len(relevant) = 2
    /\ Len(irrelevant) = 1

(***************************************************************************)
(* C4.  Re-filtering the relevant output of filter_papers under the same   *)
(* policy returns every record as relevant and none as irrelevant.         *)
(* C4_Refilter states it for every policy; C4_RefilterAmended for the      *)
(* policies whose match_fields name neither annotation field.              *)
(***************************************************************************)
AllRelevantAgain ==
    /\ irrelevant = <<>>
    /\ Len(relevant) = Len(papers)
    /\ \A k \in DOMAIN relevant : relevant[k]["relevant"] = <<"bool", TRUE>>

C4_Refilter == op = "refilter" => AllRelevantAgain

C4_RefilterAmended ==
    (op = "refilter" /\ Range(config.match_fields) \cap AnnotationFields = {})
      => AllRelevantAgain

C4_Witness ==
    /\ op = "refilter"
    /\ Range(config.match_fields) \cap AnnotationFields = {}
    /\ Len(papers) >= 2
    /\ Len(relevant) = Len(papers)

C6_EmptyGroups ==
    (Evaluated /\ config.include_groups = <<>>) =>
      \A i \in DOMAIN evals :
        /\ ~evals[i].match_info.is_relevant
        /\ (\E w \in Range(config.exclude) : Occurs(config, evals[i].text, w))
             => /\ evals[i].match_info.excluded
                /\ evals[i].match_info.exclude_reason # None

(***************************************************************************)
(* C7.  Case-insensitive matching: with case_sensitive false, a keyword    *)
(* or synonym that the pattern compiled from it finds in the text is       *)
(* found by the filter, in whatever letter case it was authored.           *)
(***************************************************************************)
\* The literals _get_all_keywords collects, as authored.
CompiledLiterals(cfg) ==
    GroupWords(cfg)
    \cup UNION {SynonymsOf(cfg, word) : word \in GroupWords(cfg)}
    \cup Range(cfg.exclude)

C7_CaseInsensitive ==
    (Evaluated /\ ~config.case_sensitive) =>
      \A i \in DOMAIN evals : \A literal \in CompiledLiterals(config) :
        re_search(re_compile(literal, config.whole_word, TRUE), evals[i].text)
          => _contains_keyword(patterns, evals[i].text, literal)

(***************************************************************************)
(* C8.  Whole-word mode: a non-empty literal of the pattern table matches  *)
(* a text exactly when it occurs in it, where under whole_word an          *)
(* occurrence has no word character next to it on either side and          *)
(* otherwise is any substring occurrence.                                  *)
(***************************************************************************)
C8_WholeWord ==
    Evaluated =>
      \A i \in DOMAIN evals : \A literal \in DOMAIN patterns \ {<<>>} :
        _contains_keyword(patterns, evals[i].text, literal)
          <=> Occurs(config, evals[i].text, literal)

(***************************************************************************)
(* C9.  An empty literal is rejected when the filter is constructed: no    *)
(* constructed filter has an empty keyword or synonym among its literals  *)
(* or a matcher for it.                                                    *)
(***************************************************************************)
C9_EmptyLiteralRejected ==
    pc = "ready" =>
      /\ <<>> \notin CompiledLiterals(config)
      /\ <<>> \notin DOMAIN patterns

(***************************************************************************)
(* C10.  Exclusion reasons of get_statistics: an excluded irrelevant       *)
(* record is counted under its exclude_reason, any other irrelevant        *)
(* record under the default reason; the keys are reason strings only.      *)
(***************************************************************************)
ClaimedReason(paper) ==
    LET match_info == paper_match_info(paper)
    IN  IF match_info.excluded THEN match_info.exclude_reason ELSE NoGroupMatched

C10_ExclusionReasons ==
    op = "stats" =>
      LET reasons == stats.exclusion_reasons
      IN  /\ None \notin DOMAIN reasons
          /\ DOMAIN reasons = {ClaimedReason(p) : p \in Range(irrelevant)}
          /\ \A r \in DOMAIN reasons :
               reasons[r] = Cardinality({i \in DOMAIN irrelevant :
                                            ClaimedReason(irrelevant[i]) = r})

(***************************************************************************)
(* C11.  Group-hit statistics are keyed by the keyword tuple of the group: *)
(* a policy with the same include groups in another order gives the same   *)
(* relevant and irrelevant records and the same group_matches counts.      *)
(***************************************************************************)
Reorderings(groups) ==
    {[i \in DOMAIN groups |-> groups[f[i]]] : f \in Permutations(DOMAIN groups)}

\* A record of an output list without its match_info (which holds group_index).
WithoutMatchInfo(paper) == [f \in DOMAIN paper \ {"match_info"} |-> paper[f]]

SameRecords(xs, ys) ==
    /\ Len(xs) = Len(ys)
    /\ \A k \in DOMAIN xs : WithoutMatchInfo(xs[k]) = WithoutMatchInfo(ys[k])

C11_GroupOrderStable ==
    op = "stats" =>
      \A groups \in Reorderings(config.include_groups) :
        LET cfg == [config EXCEPT !.include_groups = groups]
            r == filter_papers(cfg, _compile_patterns(cfg), papers)
        IN  /\ SameRecords(r.relevant, relevant)
            /\ SameRecords(r.irrelevant, irrelevant)
            /\ get_statistics(r.relevant, r.irrelevant).group_matches
                 = stats.group_matches

\* Two different groups, and a relevant record that matched the second only.
C11_Witness ==
    /\ op = "stats"
    /\ Len(config.include_groups) = 2
    /\ config.include_groups[1] # config.include_groups[2]
    /\ \E k \in DOMAIN relevant :
          /\ Len(paper_matched_groups(relevant[k])) = 1
          /\ paper_matched_groups(relevant[k])[1].group_index = 1
    /\ irrelevant # <<>>

C13_SynonymResolution ==
    [][(pc = "start" /\ pc' = "config") =>
         LET overrides == config.synonyms
             resolved == config'.synonyms
         IN  /\ DOMAIN resolved = DOMAIN BUILTIN_SYNONYMS \cup DOMAIN overrides
             /\ \A k \in DOMAIN resolved :
                  resolved[k] = IF k \in DOMAIN overrides
                                THEN overrides[k] ELSE BUILTIN_SYNONYMS[k]]_vars

\* A resolved table with an overridden built-in key and a key of the caller's
\* table alone.
C13_Witness ==
    /\ pc = "config"
    /\ config.synonyms[<<"b">>] = << <<"A">> >>
    /\ <<"a">> \in DOMAIN config.synonyms
    /\ <<"a">> \notin DOMAIN BUILTIN_SYNONYMS

(***************************************************************************)
(* C14.  Record anomalies do not abort a batch: a field of match_fields    *)
(* that a record does not have gives the text the record would have with   *)
(* the empty string there, a field whose value is neither a str nor a list *)
(* gives the text the record has without that field being read, and every  *)
(* record of the batch is in one of the two lists returned.                *)
(***************************************************************************)
WithField(paper, field, value) ==
    [f \in DOMAIN paper \cup {field} |-> IF f = field THEN value ELSE paper[f]]

WithoutIndex(seq, n) == SubSeq(seq, 1, n - 1) \o SubSeq(seq, n + 1, Len(seq))

C14_AnomaliesRecovered ==
    op \in {"filter", "refilter"} =>
      /\ Len(relevant) + Len(irrelevant) = Len(papers)
      /\ \A i \in DOMAIN papers :
           /\ annotate(papers[i], evals[i].match_info)
                \in Range(relevant) \cup Range(irrelevant)
           /\ \A n \in DOMAIN config.match_fields :
                LET field == config.match_fields[n]
                IN  /\ field \notin DOMAIN papers[i] =>
                          evals[i].text
                            = _get_paper_text(config,
                                  WithField(papers[i], field, Str(<<>>)))
                    /\ (field \in DOMAIN papers[i]
                          /\ papers[i][field][1] \notin {"str", "list"}) =>
                          evals[i].text
                            = _get_paper_text(
                                  [config EXCEPT !.match_fields =
                                       WithoutIndex(config.match_fields, n)],
                                  papers[i])

\* A batch with a record that lacks a field of match_fields and a record
\* whose field is an int, and both outcomes.
C14_Witness ==
    /\ op = "filter"
    /\ \E i \in DOMAIN papers, n \in DOMAIN config.match_fields :
          config.match_fields[n] \notin DOMAIN papers[i]
    /\ \E i \in DOMAIN papers, n \in DOMAIN config.match_fields :
          /\ config.match_fields[n] \in DOMAIN papers[i]
          /\ papers[i][config.match_fields[n]] = Other
    /\ relevant # <<>>
    /\ irrelevant # <<>>

(***************************************************************************)
(* C15.  Exclusion pass ordering: a record is excluded exactly when the    *)
(* test of some exclude keyword or of one of its synonyms hits;            *)
(* exclude_reason then names the first exclude keyword, in configured      *)
(* order, that has a hit and, when its first hit (the keyword itself       *)
(* before its synonyms in their order) is a synonym, that synonym too; and *)
(* no include group has been evaluated.                                    *)
(***************************************************************************)
\* The surface forms of a keyword in the order the code tests them.
Forms(keyword) ==
    <<keyword>> \o (IF keyword \in DOMAIN config.synonyms
                    THEN config.synonyms[keyword] ELSE <<>>)

\* The positions in Forms(keyword) whose test on the text hits.
HitForms(text, keyword) ==
    {j \in DOMAIN Forms(keyword) :
        _contains_keyword(patterns, text, Forms(keyword)[j])}

HitWords(text) ==
    {i \in DOMAIN config.exclude : HitForms(text, config.exclude[i]) # {}}

Min(S) == CHOOSE x \in S : \A y \in S : x <= y

ReasonOf(exclude_word, j) ==
    IF j = 1 THEN reason_word(exclude_word)
    ELSE reason_synonym(Forms(exclude_word)[j], exclude_word)

C15_ExclusionOrder ==
    Evaluated =>
      \A n \in DOMAIN evals :
        LET text == evals[n].text
            mi == evals[n].match_info
        IN  /\ mi.excluded <=> HitWords(text) # {}
            /\ HitWords(text) # {} =>
                 LET exclude_word == config.exclude[Min(HitWords(text))]
                 IN  /\ mi.exclude_reason
                          = ReasonOf(exclude_word,
                                     Min(HitForms(text, exclude_word)))
                     /\ mi.matched_groups = <<>>
                     /\ ~mi.is_relevant

\* An excluded record whose text has the second exclude keyword, hit through
\* the keyword and through a synonym, and does not have the first.
C15_Witness ==
    /\ Evaluated
    /\ \E n \in DOMAIN evals :
          /\ HitWords(evals[n].text) = {2}
          /\ ~KeywordOccurs(config, evals[n].text, config.exclude[1])
          /\ {1, 2} \subseteq HitForms(evals[n].text, config.exclude[2])
          /\ evals[n].match_info.exclude_reason = reason_word(config.exclude[2])

(***************************************************************************)
(* C16.  Surface-form tie-break, as claimed: for each keyword of a matched *)
(* group the match reports one surface form, the first found (the keyword  *)
(* itself before its synonyms in configured order).                        *)
(***************************************************************************)
FormName(keyword, j) ==
    IF j = 1 THEN keyword ELSE syn_of(Forms(keyword)[j], keyword)

FoundForms(text, keyword) ==
    LET js == SelectSeq([j \in DOMAIN Forms(keyword) |-> j],
                        LAMBDA j : j \in HitForms(text, keyword))
    IN  [n \in DOMAIN js |-> FormName(keyword, js[n])]

RECURSIVE Flatten(_)
Flatten(seqs) ==
    IF seqs = <<>> THEN <<>> ELSE Head(seqs) \o Flatten(Tail(seqs))

FullyMatched(text, group) ==
    \A k \in DOMAIN group : HitForms(text, group[k]) # {}

C17_ExhaustiveGroups ==
    Evaluated =>
      \A n \in DOMAIN evals :
        LET text == evals[n].text
            mi == evals[n].match_info
            mg == mi.matched_groups
        IN  ~mi.excluded =>
              /\ {mg[m].group_index + 1 : m \in DOMAIN mg}
                   = {g \in DOMAIN config.include_groups :
                         FullyMatched(text, config.include_groups[g])}
              /\ \A m1, m2 \in DOMAIN mg :
                   m1 < m2 => mg[m1].group_index < mg[m2].group_index
              /\ \A m \in DOMAIN mg :
                   /\ mg[m].group = config.include_groups[mg[m].group_index + 1]
                   /\ Range(mg[m].matched_keywords)
                        = UNION {{FormName(w, j) : j \in HitForms(text, w)} :
                                    w \in Range(mg[m].group)}
              /\ mi.matched_keywords
                   = UNION {Range(mg[m].matched_keywords) : m \in DOMAIN mg}

\* A record that matched two groups, and one that matched the second group
\* after the first group stopped at a keyword that did not hit.
C17_Witness ==
    /\ Evaluated
    /\ \E n \in DOMAIN evals : Len(evals[n].match_info.matched_groups) = 2
    /\ \E n \in DOMAIN evals :
          LET mg == evals[n].match_info.matched_groups
          IN  Len(mg) = 1 /\ mg[1].group_index = 1

(***************************************************************************)
(* C18.  A group with no keyword is never satisfiable: no matched group of *)
(* any evaluation is the empty list, so an empty group makes no record     *)
(* relevant.                                                               *)
(***************************************************************************)
C18_EmptyGroupUnsatisfiable ==
    Evaluated =>
      \A n \in DOMAIN evals :
        \A m \in DOMAIN evals[n].match_info.matched_groups :
          evals[n].match_info.matched_groups[m].group # <<>>

(***************************************************************************)
(* C19.  Matcher-table coverage: once the filter is constructed, every     *)
(* literal of the policy, a keyword of an include group or of the exclude  *)
(* list or a synonym of such a keyword, has a matcher in the table under   *)
(* the literal the evaluation looks up.                                    *)
(***************************************************************************)
PolicyLiterals(cfg) ==
    LET keywords == GroupWords(cfg) \cup Range(cfg.exclude)
    IN  keywords \cup UNION {SynonymsOf(cfg, keyword) : keyword \in keywords}

C19_MatcherCoverage ==
    pc = "ready" => PolicyLiterals(config) \subseteq DOMAIN patterns

(***************************************************************************)
(* C20.  MatchResult consistency: is_relevant exactly when matched_groups  *)
(* is not empty; an excluded result is not relevant, has an exclude_reason *)
(* and empty matched_groups and matched_keywords; a result that is not     *)
(* excluded has no exclude_reason.                                         *)
(***************************************************************************)
C20_MatchResultConsistent ==
    Evaluated =>
      \A n \in DOMAIN evals :
        LET mi == evals[n].match_info
        IN  /\ mi.is_relevant <=> mi.matched_groups # <<>>
            /\ mi.excluded =>
                 /\ ~mi.is_relevant
                 /\ mi.exclude_reason # None
                 /\ mi.matched_groups = <<>>
                 /\ mi.matched_keywords = {}
            /\ ~mi.excluded => mi.exclude_reason = None

\* An excluded text that has every keyword of an include group.
C20_Witness ==
    /\ Evaluated
    /\ \E n \in DOMAIN evals :
          /\ evals[n].match_info.excluded
          /\ \E g \in DOMAIN config.include_groups :
                /\ config.include_groups[g] # <<>>
                /\ FullyMatched(evals[n].text, config.include_groups[g])

(***************************************************************************)
(* scripts/paper_agent.py: the `all` command of main().                    *)
(*                                                                         *)
(* main.pc is the stage main() is about to run, or "exited"; main.stdout   *)
(* holds the marker lines main() has printed; main.results the outcome of  *)
(* each stage call so far: the value returned, or an exception;            *)
(* main.exit_status the status of sys.exit, 0 when main() returned.        *)
(***************************************************************************)
\* A Python bool and a Python int as values of their own type.
Bool(b) == <<"bool", b>>

Int(n) == <<"int", n>>

\* `not value` is false: None, False and the empty str are the false values
\* here; a Path is always true.
truth(value) == value \notin {None, Bool(FALSE), <<>>, Str(<<>>)}

Path(name) == <<"Path", name>>

returned(value) == [raised |-> FALSE, value |-> value]

raised == [raised |-> TRUE, value |-> None]

\* The filter left as before construction, for the components that use none
\* of its variables.
FilterIdle ==
    /\ pc = "idle"
    /\ config = <<>>
    /\ patterns = <<>>
    /\ op = "none"
    /\ papers = <<>>
    /\ relevant = <<>>
    /\ irrelevant = <<>>
    /\ evals = <<>>
    /\ stats = <<>>

filter_vars == <<pc, config, patterns, op, papers, relevant, irrelevant, evals, stats>>

\* load_config: the FilterConfig of the 'filter' section; synonyms is not
\* passed, so the table is the built-in one.
load_config(filter_dict) ==
    FilterConfig_post_init(
        [include_groups |-> filter_dict.include_groups,
         exclude |-> filter_dict.exclude,
         synonyms |-> <<>>,
         match_fields |-> <<"title", "abstract">>,
         case_sensitive |-> FALSE,
         whole_word |-> FALSE])

\* crawl_venues(...): (all_papers, summary_path), ([], None) when no paper
\* was crawled.
crawl_venues(crawled) ==
    IF crawled # <<>>
    THEN [papers |-> crawled, summary_path |-> Path("all_papers")]
    ELSE [papers |-> <<>>, summary_path |-> None]

run_stage1(crawled) == returned(crawl_venues(crawled).summary_path)

\* filter_papers_from_file: KeywordFilter(config), filter_papers,
\* get_statistics; returns (relevant, stats).
filter_papers_from_file(cfg, data_papers) ==
    LET r == filter_papers(cfg, _compile_patterns(cfg), data_papers)
    IN  [relevant |-> r.relevant,
         stats |-> get_statistics(r.relevant, r.irrelevant)]

\* paper['title'][:70] raises: the record has no title (KeyError) or a title
\* that cannot be sliced (TypeError).
title_slice_raises(paper) ==
    \/ "title" \notin DOMAIN paper
    \/ paper["title"][1] \notin {"str", "list"}

\* Mutant of run_stage2: the output file is returned whatever relevant_count
\* is.
run_stage2_without_count_check(cfg, data_papers) ==
    LET r == filter_papers_from_file(cfg, data_papers)
    IN  IF \E i \in DOMAIN r.relevant : i <= 10 /\ title_slice_raises(r.relevant[i])
        THEN raised
        ELSE returned(Path("filtered_papers"))

\* run_stage2: None when no record is relevant; otherwise the summary of the
\* first ten relevant records is printed and the output file returned.
run_stage2(cfg, data_papers) ==
    LET r == filter_papers_from_file(cfg, data_papers)
    IN  IF r.stats.relevant_count = 0 THEN returned(None)
        ELSE IF \E i \in DOMAIN r.relevant :
                   i <= 10 /\ title_slice_raises(r.relevant[i])
             THEN raised
             ELSE returned(Path("filtered_papers"))

\* run_stage3: papers_dir of download_papers_from_file, which is output_dir
\* on each of its return paths.
run_stage3 == returned(Path("papers"))

\* run_stage4: False without an API key, otherwise whether analyze_papers
\* counted a success.
run_stage4(args_api_key, environ_api_key, analysis) ==
    LET api_key == IF args_api_key = None THEN environ_api_key ELSE args_api_key
    IN  IF ~truth(api_key) THEN returned(Bool(FALSE))
        ELSE returned(Bool(analysis.success > 0))

FilterDicts ==
    [include_groups : { <<>>, << << <<"a">> >> >>, << << <<"b">> >> >> },
     exclude : { <<>>, << <<"b">> >> }]

\* No key, the empty str and a key.
ApiKeys == {None, <<>>, <<"k">>}

\* The statistics analyze_papers can return.
AnalysisStats ==
    {st \in [total : 0..MaxPapers, success : 0..MaxPapers, failed : 0..MaxPapers] :
        st.total = st.success + st.failed}

InitPipeline ==
    /\ FilterIdle
    /\ analyzer = <<>>
    /\ downloader = <<>>
    /\ \E filter_dict \in FilterDicts, args_api_key \in ApiKeys, environ_api_key \in ApiKeys :
          main = [pc |-> "stage1",
                  filter_config |-> load_config(filter_dict),
                  args_api_key |-> args_api_key,
                  environ_api_key |-> environ_api_key,
                  data |-> <<>>,
                  stdout |-> <<>>,
                  results |-> <<>>,
                  exit_status |-> None]

\* A stage call has ended: its outcome is recorded and its marker and the
\* lines main() prints after it are on stdout.
after_stage(m, marker, result, lines) ==
    [m EXCEPT !.stdout = @ \o <<marker>> \o lines,
              !.results = Append(@, result)]

\* sys.exit(1), or the except clause of main(), which prints and exits with 1.
exit_1(m) == [m EXCEPT !.pc = "exited", !.exit_status = Int(1)]

\* The stage ended: an exception goes to the except clause, a false result
\* prints error_lines and exits with 1, a true one prints OUTPUT and goes on.
stage_done(m, marker, result, error_lines, next_pc) ==
    IF result.raised
    THEN exit_1(after_stage(m, marker, result, <<"ERROR:EXCEPTION">>))
    ELSE IF ~truth(result.value)
         THEN exit_1(after_stage(m, marker, result, error_lines))
         ELSE [after_stage(m, marker, result, <<"OUTPUT">>) EXCEPT !.pc = next_pc]

Stage1 ==
    /\ main # <<>>
    /\ main.pc = "stage1"
    /\ \E crawled \in Batches, raises \in BOOLEAN :
          LET result == IF raises THEN raised ELSE run_stage1(crawled)
          IN  main' = [stage_done(main, "[STAGE1]", result,
                                  <<"ERROR:STAGE1_FAILED">>, "stage2")
                         EXCEPT !.data = IF raises THEN <<>> ELSE crawled]
    /\ UNCHANGED <<filter_vars, analyzer, downloader>>

Stage2 ==
    /\ main # <<>>
    /\ main.pc = "stage2"
    /\ main' = stage_done(main, "[STAGE2]",
                          run_stage2(main.filter_config, main.data),
                          <<>>, "stage3")
    /\ UNCHANGED <<filter_vars, analyzer, downloader>>

Stage3 ==
    /\ main # <<>>
    /\ main.pc = "stage3"
    /\ \E raises \in BOOLEAN :
          main' = stage_done(main, "[STAGE3]",
                             IF raises THEN raised ELSE run_stage3,
                             <<"ERROR:STAGE3_FAILED">>, "stage4")
    /\ UNCHANGED <<filter_vars, analyzer, downloader>>

Stage4 ==
    /\ main # <<>>
    /\ main.pc = "stage4"
    /\ \E analysis \in AnalysisStats :
          LET result == run_stage4(main.args_api_key, main.environ_api_key, analysis)
          IN  main' = IF ~truth(result.value)
                      THEN exit_1(after_stage(main, "[STAGE4]", result,
                                              <<"ERROR:STAGE4_FAILED">>))
                      ELSE [after_stage(main, "[STAGE4]", result, <<"[COMPLETE]">>)
                              EXCEPT !.pc = "exited", !.exit_status = Int(0)]
    /\ UNCHANGED <<filter_vars, analyzer, downloader>>

NextPipeline ==
    \/ Stage1
    \/ Stage2
    \/ Stage3
    \/ Stage4

SpecPipeline == InitPipeline /\ [][NextPipeline]_vars

(***************************************************************************)
(* C21.  Pipeline ordering of `all`: the stages run in the order stage1,   *)
(* stage2, stage3, stage4; a stage starts only after the stage before it   *)
(* returned a true value; at the first stage that fails (a false value or  *)
(* an exception) the process exits with status 1 and no later stage runs;  *)
(* stage2 fails when no record of the crawl is relevant; [COMPLETE] is     *)
(* printed only when all four stages succeeded.                            *)
(***************************************************************************)
Markers == <<"[STAGE1]", "[STAGE2]", "[STAGE3]", "[STAGE4]">>

\* The stages started so far, in the order of their markers on stdout.
Started == SelectSeq(main.stdout, LAMBDA line : line \in Range(Markers))

succeeded(result) == ~result.raised /\ truth(result.value)

\* No record of the crawl is relevant under the policy of the run.
NoneRelevant ==
    \A i \in DOMAIN main.data :
      ~_check_paper(main.filter_config, _compile_patterns(main.filter_config),
                    _get_paper_text(main.filter_config, main.data[i])).is_relevant

C21_PipelineOrder ==
    main # <<>> =>
      /\ Started = SubSeq(Markers, 1, Len(Started))
      /\ Len(Started) = Len(main.results)
      /\ \A k \in DOMAIN main.results :
           /\ k > 1 => succeeded(main.results[k - 1])
           /\ ~succeeded(main.results[k]) =>
                /\ main.pc = "exited"
                /\ main.exit_status = Int(1)
                /\ Len(main.results) = k
      /\ (Len(main.results) >= 2 /\ NoneRelevant) => ~succeeded(main.results[2])
      /\ "[COMPLETE]" \in Range(main.stdout) =>
           /\ Len(main.results) = 4
           /\ \A k \in DOMAIN main.results : succeeded(main.results[k])

\* A run in which all four stages succeeded and main() returned.
C21_Witness ==
    /\ main # <<>>
    /\ main.pc = "exited"
    /\ main.exit_status = Int(0)
    /\ Started = Markers
    /\ "[COMPLETE]" \in Range(main.stdout)

(***************************************************************************)
(* lib/analyzer.py: analyze_pdf.                                           *)
(*                                                                         *)
(* analyzer.pc is "encode" (before the PDF is read), "request" (about to   *)
(* post attempt number analyzer.attempt), "sleep" (backing off before the  *)
(* next attempt) or "done"; analyzer.responses is what each request got;   *)
(* analyzer.ret is the value returned.                                     *)
(***************************************************************************)
\* What a request can get: a RequestException ("timeout"), a status other
\* than 200, or a 200 response whose body is
\*   not JSON                                              "not_json"
\*   the JSON null                                         "not_object"
\*   an object without 'choices' or with 'choices': []     "no_choices"
\*   an object with 'choices': [{}]                        "no_message"
\*   an object with choices[0].message.content null        "null_content"
\*   an object with choices[0].message.content a str       "content"
Responses ==
    {"timeout", "http_500", "not_json", "not_object", "no_choices", "no_message",
     "null_content", "content"}

\* result['choices'][0]['message']['content']
content_of(response) == IF response = "content" THEN Str(<<"a">>) ELSE None

\* One pass of the loop body on a response: "return" (line 131), "retry"
\* (the warnings of lines 133, 135 and 138, then the next attempt) or "abort"
\* (an exception that is not a RequestException reaches the outer except).
\* response.json() on a body that is not JSON raises a RequestException in
\* requests 2.27 and later, a plain ValueError before.
response_outcome(response, json_error_is_request_exception) ==
    CASE response \in {"timeout", "http_500", "no_choices"} -> "retry"
      [] response \in {"content", "null_content"} -> "return"
      [] response \in {"no_message", "not_object"} -> "abort"
      [] response = "not_json" ->
            IF json_error_is_request_exception THEN "retry" ELSE "abort"

InitAnalyzer ==
    /\ FilterIdle
    /\ main = <<>>
    /\ downloader = <<>>
    /\ \E max_retries \in 0..MaxRetries, new_requests \in BOOLEAN :
          analyzer = [pc |-> "encode",
                      max_retries |-> max_retries,
                      json_error_is_request_exception |-> new_requests,
                      attempt |-> 0,
                      responses |-> <<>>,
                      ret |-> None]

\* The value is returned.
analyzer_return(a, value) == [a EXCEPT !.pc = "done", !.ret = value]

\* The loop goes to its next iteration, or ends when attempt was the last.
next_attempt(a) ==
    IF a.attempt + 1 < a.max_retries
    THEN [a EXCEPT !.attempt = @ + 1, !.pc = "request"]
    ELSE analyzer_return(a, None)

\* encode_pdf_to_base64 and the payload; an unreadable file raises, and the
\* outer except returns None.  With max_retries = 0 the loop has no pass.
Encode ==
    /\ analyzer # <<>>
    /\ analyzer.pc = "encode"
    /\ \E readable \in BOOLEAN :
          analyzer' = IF readable /\ analyzer.max_retries > 0
                      THEN [analyzer EXCEPT !.pc = "request"]
                      ELSE analyzer_return(analyzer, None)
    /\ UNCHANGED <<filter_vars, main, downloader>>

\* requests.post and what the loop body does with the response.
Post ==
    /\ analyzer # <<>>
    /\ analyzer.pc = "request"
    /\ \E response \in Responses :
          LET a == [analyzer EXCEPT !.responses = Append(@, response)]
              outcome == response_outcome(response,
                                          a.json_error_is_request_exception)
          IN  analyzer' =
                IF outcome = "return" THEN analyzer_return(a, content_of(response))
                ELSE IF outcome = "abort" THEN analyzer_return(a, None)
                ELSE IF a.attempt < a.max_retries - 1
                     THEN [a EXCEPT !.pc = "sleep"]
                     ELSE next_attempt(a)
    /\ UNCHANGED <<filter_vars, main, downloader>>

\* time.sleep(2 ** attempt), then the next attempt.
Backoff ==
    /\ analyzer # <<>>
    /\ analyzer.pc = "sleep"
    /\ analyzer' = next_attempt(analyzer)
    /\ UNCHANGED <<filter_vars, main, downloader>>

NextAnalyzer ==
    \/ Encode
    \/ Post
    \/ Backoff

SpecAnalyzer == InitAnalyzer /\ [][NextAnalyzer]_vars

(***************************************************************************)
(* C22.  Bounded retry of analyze_pdf: at most max_retries requests are    *)
(* sent; the call stops and returns the content at the first response with *)
(* status 200 and a non-empty choices list; after any other response or a  *)
(* request exception it goes on to the next attempt while one is left; it  *)
(* returns None exactly when no attempt succeeded.                         *)
(***************************************************************************)
\* The response has status 200 and a non-empty choices list.
Succeeds(response) == response \in {"content", "null_content", "no_message"}

C22_BoundedRetry ==
    (analyzer # <<>> /\ analyzer.pc = "done") =>
      LET responses == analyzer.responses
          n == Len(responses)
      IN  /\ n <= analyzer.max_retries
          /\ \A i \in DOMAIN responses :
               Succeeds(responses[i]) =>
                 i = n /\ analyzer.ret = content_of(responses[i])
          /\ (n > 0 /\ ~Succeeds(responses[n])) => n = analyzer.max_retries
          /\ analyzer.ret = None <=> \A i \in DOMAIN responses : ~Succeeds(responses[i])

(***************************************************************************)
(* lib/downloader.py: PDFDownloader.                                     *)
(*                                                                         *)
(* downloader.stats is self.stats, downloader.files the names of the files *)
(* in output_dir, downloader.calls the number of download calls made and   *)
(* downloader.call the last of them: its record, the stats before it, the  *)
(* sources it tried in order, and how it ended.                            *)
(***************************************************************************)
SafeTitleLen == 50    \* safe_title is cut to 50 characters

\* str.split(): the words of s between runs of spaces.
RECURSIVE split(_)
split(s) ==
    IF s = <<>> THEN <<>>
    ELSE IF Head(s) = " " THEN split(Tail(s))
    ELSE LET ends == {i \in 1..Len(s) : i = Len(s) \/ s[i + 1] = " "}
             n == CHOOSE i \in ends : \A j \in ends : i <= j
         IN  <<SubSeq(s, 1, n)>> \o split(SubSeq(s, n + 1, Len(s)))

\* str.strip()
RECURSIVE strip(_)
strip(s) ==
    IF s = <<>> THEN s
    ELSE IF Head(s) = " " THEN strip(Tail(s))
    ELSE IF s[Len(s)] = " " THEN strip(SubSeq(s, 1, Len(s) - 1))
    ELSE s

\* re.sub(r'[<>:"/\\|?*]', '_', filename).strip()
_sanitize_filename(filename) ==
    strip([i \in 1..Len(filename) |->
             IF filename[i] \in {"<", ">", ":", "\"", "/", "\\", "|", "?", "*"}
             THEN "_" ELSE filename[i]])

\* What self.session.get and the write to output_path can do: the file is
\* written ("ok"), nothing is written ("fail": an HTTP error, a page that is
\* not a PDF), or the stream breaks after open() created the file ("partial").
Outcomes == {"ok", "fail", "partial"}

\* _try_download: True only for a complete file; created tells whether a file
\* now exists at output_path.
_try_download(outcome) ==
    [success |-> outcome = "ok", created |-> outcome \in {"ok", "partial"}]

\* One use of a source, and whether it gave what was asked of it: a complete
\* file for a download, a PDF URL for the search.
attempt(source, success) == [source |-> source, success |-> success]

\* Lines 62-67: the record's own URL, when it has one.
try_pdf_url(pdf_url, env) ==
    IF truth(pdf_url)
    THEN [success |-> _try_download(env.url).success,
          created |-> _try_download(env.url).created,
          attempts |-> <<attempt("pdf_url", _try_download(env.url).success)>>]
    ELSE [success |-> FALSE, created |-> FALSE, attempts |-> <<>>]

\* Lines 60-76 with the arXiv search left out.
try_sources_without_arxiv(pdf_url, env) == try_pdf_url(pdf_url, env)

\* Lines 60-76: the record's own URL when it has one, then the arXiv search
\* when that did not succeed, and the arXiv download when the search found a
\* URL.
try_sources(pdf_url, env) ==
    LET first == try_pdf_url(pdf_url, env)
    IN  IF first.success THEN first
        ELSE IF ~env.arxiv_found
             THEN [first EXCEPT !.attempts = Append(@, attempt("arxiv_search", FALSE))]
             ELSE [success |-> _try_download(env.arxiv).success,
                   created |-> first.created \/ _try_download(env.arxiv).created,
                   attempts |-> first.attempts \o
                     <<attempt("arxiv_search", TRUE),
                       attempt("arxiv_download", _try_download(env.arxiv).success)>>]

\* The call ends in an exception: the stats stay as they are at that point.
download_raises(self, paper, new_stats) ==
    [stats |-> new_stats, files |-> self.files, calls |-> self.calls + 1,
     call |-> [paper |-> paper, before |-> self.stats, raised |-> TRUE,
               ret |-> None, attempts |-> <<>>, existed |-> FALSE]]

\* The call returns ret.
download_returns(self, paper, new_stats, new_files, ret, attempts, existed) ==
    [stats |-> new_stats, files |-> new_files, calls |-> self.calls + 1,
     call |-> [paper |-> paper, before |-> self.stats, raised |-> FALSE,
               ret |-> ret, attempts |-> attempts, existed |-> existed]]

\* PDFDownloader.download(paper, paper_idx, total).
download(self, paper, env) ==
    LET title == dict_get(paper, "title", Str(<<"U", "n", "k", "n", "o", "w", "n">>))
        pdf_url == dict_get(paper, "pdf_url", None)
        counted == [self.stats EXCEPT !.total = @ + 1]
        authors == dict_get(paper, "authors", <<>>)
    IN  IF title[1] # "str" THEN download_raises(self, paper, self.stats)
        ELSE IF authors # <<>> /\ authors[1][1] # "str"
             THEN download_raises(self, paper, counted)
        ELSE IF authors # <<>> /\ split(authors[1][2]) = <<>>
             THEN download_raises(self, paper, counted)
        ELSE
          LET words == IF authors # <<>> THEN split(authors[1][2]) ELSE <<>>
              first_author == IF authors # <<>> THEN words[Len(words)]
                              ELSE <<"U", "n", "k", "n", "o", "w", "n">>
              safe_title == SubSeq(_sanitize_filename(title[2]), 1,
                                   IF Len(_sanitize_filename(title[2])) < SafeTitleLen
                                   THEN Len(_sanitize_filename(title[2]))
                                   ELSE SafeTitleLen)
              filename == [year |-> 2024, first_author |-> first_author,
                           safe_title |-> safe_title]
              tried == try_sources(pdf_url, env)
              files == IF tried.created THEN self.files \cup {filename}
                       ELSE self.files
          IN  IF filename \in self.files
              THEN download_returns(self, paper,
                                    [counted EXCEPT !.skipped = @ + 1],
                                    self.files, Path(filename), <<>>, TRUE)
              ELSE IF tried.success
              THEN download_returns(self, paper,
                                    [counted EXCEPT !.success = @ + 1],
                                    files, Path(filename), tried.attempts, FALSE)
              ELSE download_returns(self, paper,
                                    [counted EXCEPT !.failed = @ + 1],
                                    files, None, tried.attempts, FALSE)

\* Records handed to download: each key may be absent.
WithKey(records, key, values) ==
    records \cup {r @@ (key :> v) : r \in records, v \in values}

DownloadPapers ==
    WithKey(WithKey(WithKey({<<>>},
        "title", {Str(<<"a">>), Str(<<" ", "a">>), Str(<<"b", ":">>), None}),
        "authors", {<<>>, <<Str(<<"j", " ", "d">>)>>, <<Str(<<"d">>), Str(<<"j">>)>>,
                    <<Str(<<>>)>>, <<None>>}),
        "pdf_url", {None, Str(<<>>), Str(<<"u">>)})

Environments ==
    [url : Outcomes, arxiv_found : BOOLEAN, arxiv : Outcomes]

\* PDFDownloader.__init__
InitDownloader ==
    /\ FilterIdle
    /\ main = <<>>
    /\ analyzer = <<>>
    /\ downloader = [stats |-> [total |-> 0, success |-> 0, failed |-> 0, skipped |-> 0],
                     files |-> {},
                     calls |-> 0,
                     call |-> <<>>]

Download ==
    /\ downloader # <<>>
    /\ downloader.calls < MaxCalls
    /\ \E paper \in DownloadPapers, env \in Environments :
          downloader' = download(downloader, paper, env)
    /\ UNCHANGED <<filter_vars, main, analyzer>>

NextDownloader == Download

SpecDownloader == InitDownloader /\ [][NextDownloader]_vars

(***************************************************************************)
(* C23.  Download statistics: after any sequence of download calls         *)
(* total = success + failed + skipped; each call raises total by exactly   *)
(* one and exactly one of the other three by one; it returns a path        *)
(* exactly when it counted success or skipped, and None exactly when it    *)
(* counted failed.                                                         *)
(***************************************************************************)
C23_StatsPartition ==
    (downloader # <<>> /\ downloader.call # <<>>) =>
      LET now == downloader.stats
          before == downloader.call.before
          ret == downloader.call.ret
          delta == [k \in {"total", "success", "failed", "skipped"} |->
                      now[k] - before[k]]
      IN  /\ now.total = now.success + now.failed + now.skipped
          /\ delta.total = 1
          /\ \E k \in {"success", "failed", "skipped"} :
                /\ delta[k] = 1
                /\ \A other \in {"success", "failed", "skipped"} \ {k} :
                      delta[other] = 0
          /\ ~downloader.call.raised =>
                /\ ret # None <=> (delta.success = 1 \/ delta.skipped = 1)
                /\ ret = None <=> delta.failed = 1

(***************************************************************************)
(* C24.  Download source order: when a file already exists at the target   *)
(* path the call tries no download and counts skipped; otherwise the       *)
(* record's own PDF URL, when it has one, is tried first; the arXiv title   *)
(* search is tried only when that did not succeed or there is no URL; the  *)
(* call counts failed only after every source it has was tried without     *)
(* success: the URL when the record has one, and arXiv.  An empty pdf_url   *)
(* counts as no URL.                                                       *)
(***************************************************************************)
Sources(attempts) == [i \in DOMAIN attempts |-> attempts[i].source]

C24_SourceOrder ==
    (downloader # <<>> /\ downloader.call # <<>> /\ ~downloader.call.raised) =>
      LET call == downloader.call
          attempts == call.attempts
          has_url == truth(dict_get(call.paper, "pdf_url", None))
          failed == downloader.stats.failed = call.before.failed + 1
          skipped == downloader.stats.skipped = call.before.skipped + 1
          url_first == <<"pdf_url">>
          arxiv == {<<"arxiv_search">>, <<"arxiv_search", "arxiv_download">>}
      IN  /\ call.existed => attempts = <<>> /\ skipped
          /\ ~call.existed =>
                /\ ~skipped
                /\ has_url =>
                     /\ Sources(attempts) \in
                          {url_first} \cup {url_first \o a : a \in arxiv}
                     /\ Len(attempts) > 1 => ~attempts[1].success
                /\ ~has_url => Sources(attempts) \in arxiv
                /\ failed <=> /\ \E i \in DOMAIN attempts :
                                    attempts[i].source = "arxiv_search"
                              /\ ~attempts[Len(attempts)].success

\* A record with a URL, no file yet: the URL fails, the arXiv search finds a
\* PDF, its download fails too, and the call counts failed.
C24_Witness ==
    /\ downloader # <<>>
    /\ downloader.call # <<>>
    /\ ~downloader.call.raised
    /\ ~downloader.call.existed
    /\ downloader.call.attempts =
         <<attempt("pdf_url", FALSE), attempt("arxiv_search", TRUE),
           attempt("arxiv_download", FALSE)>>
    /\ downloader.call.ret = None
    /\ downloader.stats.failed = downloader.call.before.failed + 1

====
